---- MODULE Spec2Model ----
(***************************************************************************)
(* Model of stats_collector.StatsCollector: the table-rendering state      *)
(* machine (headers, history, render state, console) of                    *)
(* src/src/stats_collector/stats_collector.py.                             *)
(*                                                                         *)
(* Text is modelled as a sequence of one-character strings, a multi-line   *)
(* string as the sequence of its lines.  The console is the sequence of    *)
(* lines printed so far, bottom-most last; delete_console_line removes the *)
(* bottom-most one.                                                        *)
(***************************************************************************)
EXTENDS Integers, Sequences, FiniteSets, TLC

VARIABLES
    conf,       \* _conf: the configuration
    table,      \* _table: the render state
    title,      \* _title
    headers,    \* _headers: the ordered header dict
    stats,      \* _stats: the history of rows
    last_stat,  \* _last_stat: the current row
    console,    \* the lines on the console, bottom-most last
    file,       \* the lines of the file _conf.file
    references, \* _references: the bindings of header keys, in the order made
    target,     \* the fields of the external object that headers are bound to
    term,       \* the terminal as the latest width query found it
    calls,      \* the number of calls made
    ret,        \* the latest call: its name, what it returned, the diagnostic it printed
    pre,        \* the latest call's argument, and headers and history before it
    run,        \* what the latest run of the print pipeline was seen to do
    twin        \* a second collector, given the same calls on another terminal

vars == <<conf, table, title, headers, stats, last_stat, console, file, references, target,
          term, calls, ret, pre, run, twin>>

(* ------------------------------ bounds --------------------------------- *)

\* number of calls made on the collector in one behaviour
MaxCalls == 3

(* --------------------------- text helpers ------------------------------ *)

Min(a, b) == IF a < b THEN a ELSE b

Max(a, b) == IF a > b THEN a ELSE b

\* c * n
Rep(c, n) == [i \in 1..n |-> c]

Dashes(n) == Rep("-", n)

Digit(d) == CASE d = 0 -> "0" [] d = 1 -> "1" [] d = 2 -> "2" [] d = 3 -> "3"
              [] d = 4 -> "4" [] d = 5 -> "5" [] d = 6 -> "6" [] d = 7 -> "7"
              [] d = 8 -> "8" [] d = 9 -> "9"

\* the value None of a row
None == -1

RECURSIVE str(_)
\* str(value) of a non-negative int or of None
str(n) == IF n = None THEN <<"N", "o", "n", "e">>
          ELSE IF n < 10 THEN <<Digit(n)>> ELSE str(n \div 10) \o <<Digit(n % 10)>>

\* f'{value:{minlen}}' of a number: right-justified
Pad_right_justified(text, minlen) == Rep(" ", Max(0, minlen - Len(text))) \o text

\* f'{text:{minlen}}' : left-justified, space-filled on the right, never cut
Pad(text, minlen) == text \o Rep(" ", Max(0, minlen - Len(text)))

default_terminal_columns == 160

\* os.get_terminal_size() raises when no terminal is attached
NoTerminal == 0

get_terminal_columns(t) == IF t = NoTerminal THEN default_terminal_columns ELSE t

\* text[0:limit]
limit_console_line(text, limit) == SubSeq(text, 1, Min(limit, Len(text)))

(* --------------------------- configuration ----------------------------- *)

TERMINAL_CHANGE == "terminal_change"
TERMINAL_DECREASE == "terminal_decrease"
TABLE_DECREASE == "table_decrease"

StatsCollectorConfig ==
    [can_print_title |-> TRUE, is_short_format |-> TRUE, can_print_stats |-> TRUE,
     can_write_file |-> FALSE, file_mode |-> "w",
     reset_table_mode |-> TABLE_DECREASE]

\* the configurations a collector is constructed with here: the defaults and
\* each option changed alone
Configs ==
    { StatsCollectorConfig,
      [StatsCollectorConfig EXCEPT !.can_print_title = FALSE],
      [StatsCollectorConfig EXCEPT !.is_short_format = FALSE],
      [StatsCollectorConfig EXCEPT !.can_print_stats = FALSE],
      [StatsCollectorConfig EXCEPT !.reset_table_mode = TERMINAL_CHANGE],
      [StatsCollectorConfig EXCEPT !.reset_table_mode = TERMINAL_DECREASE] }

(* --------------------------- render state ------------------------------ *)

StatsCollectorTable ==
    [should_update_headers |-> FALSE, should_update_title |-> FALSE,
     title_str |-> <<>>, headers_str |-> <<>>, stats_str |-> <<>>,
     title_len |-> 0, headers_len |-> 0, stats_len |-> 0, info_len |-> 0,
     line_limit |-> 0, title_width |-> 0, table_width |-> 0, max_stat_width |-> 0]

(* ------------------------------ headers -------------------------------- *)

\* _set_headers for a list of names: key = name, minlen = len(name)
_set_headers(names) ==
    [i \in 1..Len(names) |->
        [key |-> names[i], index |-> i - 1, name |-> names[i], minlen |-> Len(names[i])]]

\* position of key in the ordered header dict, 0 when headers.get(key) is None
HeaderPos(hs, key) ==
    IF \E i \in 1..Len(hs) : hs[i].key = key
    THEN CHOOSE i \in 1..Len(hs) : hs[i].key = key
    ELSE 0

(* ------------------------------ console -------------------------------- *)

\* the lines of one print call, each marked with the block it belongs to
Lines(block, texts) == [i \in 1..Len(texts) |-> [block |-> block, text |-> texts[i]]]

\* _write_str_to_file: the lines are appended to the file
_write_str_to_file(f, lines) ==
    IF conf.can_write_file THEN f \o [i \in 1..Len(lines) |-> lines[i].text] ELSE f

\* _print_str: print(cur_str), then _write_str_to_file(cur_str); w is the
\* render state, the console and the file
_print_str(w, lines) ==
    [w EXCEPT !.console = @ \o lines, !.file = _write_str_to_file(@, lines)]

\* delete_console_line, n times: the n bottom-most lines go
delete_console_line(con, n) == SubSeq(con, 1, Max(0, Len(con) - n))

\* _reset_table that leaves the header block counted as printed
_reset_table_keeps_headers(w, reason, should_print_text) ==
    [w EXCEPT !.table = [StatsCollectorTable EXCEPT !.headers_len = w.table.headers_len],
              !.console = IF should_print_text
                          THEN @ \o Lines("msg", << <<"Reset table: ", reason>> >>)
                          ELSE @]

\* _reset_table: the render state is rebuilt; "Reset table: <reason>" is printed
_reset_table(w, reason, should_print_text) ==
    [w EXCEPT !.table = StatsCollectorTable,
              !.console = IF should_print_text
                          THEN @ \o Lines("msg", << <<"Reset table: ", reason>> >>)
                          ELSE @]

(* --------------------------- print pipeline ---------------------------- *)

RECURSIVE RowFrom(_, _, _, _)
\* the loop of _print_headers / _print_stat / get_table over the headers:
\* row_str = f'{row_str} {cell:{minlen}} |'
RowFrom(hs, cells, i, row_str) ==
    IF i > Len(hs) THEN row_str
    ELSE RowFrom(hs, cells, i + 1,
                 row_str \o <<" ">> \o Pad(cells[hs[i].index], hs[i].minlen) \o <<" ", "|">>)

\* the names of the headers, by index
Names(hs) == [x \in {hs[i].index : i \in 1..Len(hs)} |->
                 hs[CHOOSE i \in 1..Len(hs) : hs[i].index = x].name]

HeaderRow(hs) == RowFrom(hs, Names(hs), 1, <<"|">>)

StatRow(hs, stat) == RowFrom(hs, stat.cells, 1, <<"|">>)

TitleRow(t) == <<"|", " ">> \o t \o <<" ", "|">>

_print_title(w) ==
    IF conf.can_print_title /\ w.table.title_len = 0 /\ title # <<>>
    THEN LET pristine == TitleRow(title)
             title_str == limit_console_line(pristine, w.table.line_limit)
             temp_str == <<Dashes(Len(title_str)), title_str>>
             tb == [w.table EXCEPT !.table_width = Len(pristine),
                                   !.title_str = temp_str,
                                   !.title_len = 1,
                                   !.should_update_title = FALSE]
         IN _print_str([w EXCEPT !.table = tb], Lines("title", temp_str))
    ELSE w

_print_headers(w, hs) ==
    IF w.table.headers_len = 0
    THEN LET pristine == HeaderRow(hs)
             table_width == Len(pristine)
             header_str == limit_console_line(pristine, w.table.line_limit)
             line == Dashes(Len(header_str))
             header_title_line ==
                 limit_console_line(Dashes(Max(table_width, w.table.title_width)),
                                    w.table.line_limit)
             temp_str == <<header_title_line, header_str, line>>
             tb == [w.table EXCEPT !.table_width = table_width,
                                   !.headers_str = temp_str,
                                   !.headers_len = 1,
                                   !.should_update_headers = FALSE]
         IN _print_str([w EXCEPT !.table = tb], Lines("headers", temp_str))
    ELSE w

RECURSIVE InfoWidth(_, _, _)
\* the loop of _print_stat over the info items: max_stat_width grows to the
\* longest len(info_item)
InfoWidth(info, i, width) ==
    IF i > Len(info) THEN width
    ELSE InfoWidth(info, i + 1, IF Len(info[i]) > width THEN Len(info[i]) ELSE width)

\* _print_stat that records no info lines (info_len stays 0)
_print_stat_no_info_len(w, hs, stat) ==
    LET stat_str == limit_console_line(StatRow(hs, stat), w.table.line_limit)
        line == Dashes(Len(stat_str))
        info == stat.info
        info_str == [i \in 1..Len(info) |-> limit_console_line(info[i], w.table.line_limit)]
        temp_str == IF Len(info) > 0 THEN <<stat_str, line>> \o info_str \o <<line>>
                    ELSE <<stat_str, line>>
        tb == [w.table EXCEPT !.max_stat_width = InfoWidth(info, 1, Len(stat_str)),
                              !.info_len = 0,
                              !.stats_str = temp_str,
                              !.stats_len = 1]
    IN _print_str([w EXCEPT !.table = tb],
                  Lines("stat", <<stat_str, line>>)
                  \o (IF Len(info) > 0 THEN Lines("info", info_str \o <<line>>) ELSE <<>>))

_print_stat(w, hs, stat) ==
    LET stat_str == limit_console_line(StatRow(hs, stat), w.table.line_limit)
        line == Dashes(Len(stat_str))
        info == stat.info
        info_str == [i \in 1..Len(info) |-> limit_console_line(info[i], w.table.line_limit)]
        temp_str == IF Len(info) > 0 THEN <<stat_str, line>> \o info_str \o <<line>>
                    ELSE <<stat_str, line>>
        tb == [w.table EXCEPT !.max_stat_width = InfoWidth(info, 1, Len(stat_str)),
                              !.info_len = Len(info),
                              !.stats_str = temp_str,
                              !.stats_len = 1]
    IN _print_str([w EXCEPT !.table = tb],
                  Lines("stat", <<stat_str, line>>)
                  \o (IF Len(info) > 0 THEN Lines("info", info_str \o <<line>>) ELSE <<>>))

\* count_del_lines with the header block taken to be 1 + headers_len lines
\* (as the title block is) instead of 2 + headers_len
count_del_lines_short_headers(tb) ==
    IF conf.is_short_format
    THEN (IF tb.stats_len > 0 THEN 1 + tb.stats_len ELSE 0)
         + (IF tb.info_len > 0 THEN 1 + tb.info_len ELSE 0)
         + (IF tb.should_update_title /\ tb.title_len > 0 THEN 1 + tb.title_len ELSE 0)
         + (IF (tb.should_update_headers \/ tb.should_update_title) /\ tb.headers_len > 0
            THEN 1 + tb.headers_len ELSE 0)
    ELSE 0

\* the number of lines _clear_console deletes
count_del_lines(tb) ==
    IF conf.is_short_format
    THEN (IF tb.stats_len > 0 THEN 1 + tb.stats_len ELSE 0)
         + (IF tb.info_len > 0 THEN 1 + tb.info_len ELSE 0)
         + (IF tb.should_update_title /\ tb.title_len > 0 THEN 1 + tb.title_len ELSE 0)
         + (IF (tb.should_update_headers \/ tb.should_update_title) /\ tb.headers_len > 0
            THEN 2 + tb.headers_len ELSE 0)
    ELSE 0

_clear_console(w) ==
    IF conf.is_short_format
    THEN LET tb == w.table
             eraseTitle == tb.should_update_title /\ tb.title_len > 0
             eraseHeaders == (tb.should_update_headers \/ tb.should_update_title)
                             /\ tb.headers_len > 0
         IN [w EXCEPT !.table = [tb EXCEPT !.stats_len = 0,
                                           !.info_len = 0,
                                           !.title_len = IF eraseTitle THEN 0 ELSE @,
                                           !.headers_len = IF eraseHeaders THEN 0 ELSE @],
                      !.console = delete_console_line(@, count_del_lines(tb))]
    ELSE w

_should_reset_table(tb, line_limit) ==
    IF conf.reset_table_mode = TERMINAL_DECREASE THEN line_limit < tb.line_limit
    ELSE IF conf.reset_table_mode = TABLE_DECREASE THEN line_limit < tb.max_stat_width
    ELSE line_limit # tb.line_limit

\* the first half of _print_table: reset or flag, then store the new limit
Reconcile(w, line_limit) ==
    LET w1 == IF _should_reset_table(w.table, line_limit)
              THEN _reset_table(w, <<>>, FALSE)
              ELSE IF w.table.title_width > w.table.line_limit
              THEN [w EXCEPT !.table.should_update_title = TRUE]
              ELSE IF w.table.table_width > w.table.line_limit
              THEN [w EXCEPT !.table.should_update_headers = TRUE]
              ELSE w
    IN [w1 EXCEPT !.table.line_limit = line_limit]


(* ------------------------------ resizing ------------------------------- *)

\* an empty dict, as _last_stat is after construction
EmptyStat == [cells |-> <<>>, has_info |-> FALSE, info |-> <<>>]

\* len(stat) of a stored row: its index keys and its "info" key
DictLen(stat) == Cardinality(DOMAIN stat.cells) + (IF stat.has_info THEN 1 ELSE 0)

\* dict.update the wrong way round: the old values win
DictUpdate_old_wins(old, new) ==
    [x \in DOMAIN old \cup DOMAIN new |-> IF x \in DOMAIN old THEN old[x] ELSE new[x]]

\* dict.update on the index keys
DictUpdate(old, new) ==
    [x \in DOMAIN old \cup DOMAIN new |-> IF x \in DOMAIN new THEN new[x] ELSE old[x]]

RECURSIVE ResizeFrom_cut_to_limit(_, _, _, _, _, _)
\* _resize that keeps of a value's text what the line limit in force leaves of
\* a one-column row "| text |"
ResizeFrom_cut_to_limit(kv, i, hs, w, temp_stat, should_update_headers) ==
    IF i > Len(kv) THEN [ok |-> TRUE, headers |-> hs, w |-> w, temp_stat |-> temp_stat]
    ELSE LET pos == HeaderPos(hs, kv[i].k) IN
         IF pos = 0
         THEN [ok |-> FALSE, headers |-> hs,
               w |-> _reset_table(w, "Wrong stat key", TRUE), temp_stat |-> temp_stat]
         ELSE LET text == IF w.table.line_limit > 0
                          THEN limit_console_line(str(kv[i].v), Max(1, w.table.line_limit - 12))
                          ELSE str(kv[i].v)
                  minlen == Len(text)
                  grows == minlen > hs[pos].minlen
              IN ResizeFrom_cut_to_limit(kv, i + 1,
                            IF grows THEN [hs EXCEPT ![pos].minlen = minlen] ELSE hs,
                            IF grows /\ should_update_headers
                            THEN [w EXCEPT !.table.should_update_headers = TRUE] ELSE w,
                            DictUpdate(temp_stat, [x \in {hs[pos].index} |-> text]),
                            should_update_headers)

RECURSIVE ResizeFrom_no_growth(_, _, _, _, _, _)
\* _resize that leaves every minlen as it is
ResizeFrom_no_growth(kv, i, hs, w, temp_stat, should_update_headers) ==
    IF i > Len(kv) THEN [ok |-> TRUE, headers |-> hs, w |-> w, temp_stat |-> temp_stat]
    ELSE LET pos == HeaderPos(hs, kv[i].k) IN
         IF pos = 0
         THEN [ok |-> FALSE, headers |-> hs,
               w |-> _reset_table(w, "Wrong stat key", TRUE), temp_stat |-> temp_stat]
         ELSE ResizeFrom_no_growth(kv, i + 1, hs, w,
                                   DictUpdate(temp_stat, [x \in {hs[pos].index} |-> str(kv[i].v)]),
                                   should_update_headers)

RECURSIVE ResizeFrom(_, _, _, _, _, _)
\* the loop of _resize over stat.items(), from item i on; hs are the headers,
\* w the render state and console, temp_stat the row built so far
ResizeFrom(kv, i, hs, w, temp_stat, should_update_headers) ==
    IF i > Len(kv) THEN [ok |-> TRUE, headers |-> hs, w |-> w, temp_stat |-> temp_stat]
    ELSE LET pos == HeaderPos(hs, kv[i].k) IN
         IF pos = 0
         THEN [ok |-> FALSE, headers |-> hs,
               w |-> _reset_table(w, "Wrong stat key", TRUE), temp_stat |-> temp_stat]
         ELSE LET text == str(kv[i].v)
                  minlen == Len(text)
                  grows == minlen > hs[pos].minlen
              IN ResizeFrom(kv, i + 1,
                            IF grows THEN [hs EXCEPT ![pos].minlen = minlen] ELSE hs,
                            IF grows /\ should_update_headers
                            THEN [w EXCEPT !.table.should_update_headers = TRUE] ELSE w,
                            DictUpdate(temp_stat, [x \in {hs[pos].index} |-> text]),
                            should_update_headers)

_resize(kv, hs, w, should_update_headers) ==
    ResizeFrom(kv, 1, hs, w, <<>>, should_update_headers)

RECURSIVE RenameFrom_set_minlen(_, _, _)
\* rename_headers that sets minlen to len(name) whether or not it is longer
RenameFrom_set_minlen(mapping, i, temp_headers) ==
    IF i > Len(mapping) THEN [ok |-> TRUE, headers |-> temp_headers]
    ELSE LET pos == HeaderPos(temp_headers, mapping[i].k) IN
         IF pos = 0 THEN [ok |-> FALSE, headers |-> temp_headers]
         ELSE RenameFrom_set_minlen(mapping, i + 1,
                                    [temp_headers EXCEPT ![pos].name = mapping[i].v,
                                                         ![pos].minlen = Len(mapping[i].v)])

RECURSIVE RenameFrom(_, _, _)
\* the loop of rename_headers over headers.items(), on the deep copy temp_headers;
\* FALSE when a key is unknown
RenameFrom(mapping, i, temp_headers) ==
    IF i > Len(mapping) THEN [ok |-> TRUE, headers |-> temp_headers]
    ELSE LET pos == HeaderPos(temp_headers, mapping[i].k) IN
         IF pos = 0 THEN [ok |-> FALSE, headers |-> temp_headers]
         ELSE RenameFrom(mapping, i + 1,
                         [temp_headers EXCEPT
                             ![pos].name = mapping[i].v,
                             ![pos].minlen = IF Len(mapping[i].v) > @
                                             THEN Len(mapping[i].v) ELSE @])

(* ------------------------------- export -------------------------------- *)

RECURSIVE StatsLines_no_inner_rule(_, _, _, _)
\* get_table's row loop with no dash rule between a value line and its info lines
StatsLines_no_inner_rule(hs, rows, i, line) ==
    IF i > Len(rows) THEN <<>>
    ELSE <<StatRow(hs, rows[i])>> \o rows[i].info \o <<line>>
         \o StatsLines_no_inner_rule(hs, rows, i + 1, line)

RECURSIVE StatsLines(_, _, _, _)
\* the loop of get_table over the rows: value line, dash rule and, for a row
\* with info lines, the info lines and one more dash rule
StatsLines(hs, rows, i, line) ==
    IF i > Len(rows) THEN <<>>
    ELSE (IF Len(rows[i].info) > 0
          THEN <<StatRow(hs, rows[i]), line>> \o rows[i].info \o <<line>>
          ELSE <<StatRow(hs, rows[i]), line>>)
         \o StatsLines(hs, rows, i + 1, line)

\* get_table(should_show_table=False): the lines of the exported text
get_table(cf, t, hs, rows) ==
    LET has_title == cf.can_print_title /\ t # <<>>
        title_str == IF has_title THEN TitleRow(t) ELSE <<>>
        header_str == HeaderRow(hs)
        line == Dashes(Len(header_str))
        header_title_line == Dashes(Max(Len(header_str), Len(title_str)))
    IN (IF has_title THEN <<Dashes(Len(title_str)), title_str>> ELSE <<>>)
       \o <<header_title_line, header_str, line>>
       \o StatsLines(hs, rows, 1, line)

\* write_to_file(file, mode): the exported text and a newline, written over
\* the file or appended to it
write_to_file(f, mode) ==
    IF mode = "w" THEN get_table(conf, title, headers, stats)
    ELSE f \o get_table(conf, title, headers, stats)

_should_rewrite_file == conf.can_write_file /\ conf.file_mode = "w"

_rewrite_file(f) == IF _should_rewrite_file THEN write_to_file(f, "w") ELSE f

(* ----------------------------- references ------------------------------ *)

\* stat.get(header): the position of header among the items kv when it is
\* there with a value that is not None, else 0
StatGet(kv, header) ==
    IF \E i \in 1..Len(kv) : kv[i].k = header /\ kv[i].v # None
    THEN CHOOSE i \in 1..Len(kv) : kv[i].k = header /\ kv[i].v # None
    ELSE 0

\* stat[header] = value: in place when the key is there, else at the end
StatSet(kv, header, value) ==
    IF \E i \in 1..Len(kv) : kv[i].k = header
    THEN [i \in 1..Len(kv) |-> IF kv[i].k = header THEN [k |-> header, v |-> value] ELSE kv[i]]
    ELSE Append(kv, [k |-> header, v |-> value])

RECURSIVE ReferencesFrom(_, _, _)
\* the loop of _write_references_to_stat over the bindings, from binding i on:
\* get_func(obj, prop) for each header the row has no value for
ReferencesFrom(refs, i, kv) ==
    IF i > Len(refs) THEN kv
    ELSE ReferencesFrom(refs, i + 1,
                        IF StatGet(kv, refs[i].header) = 0
                        THEN StatSet(kv, refs[i].header, target[refs[i].prop])
                        ELSE kv)

\* _write_references_to_stat: with no binding the argument is returned as it
\* is (None stays None); else None becomes {} and the bound headers are filled
_write_references_to_stat(stat) ==
    IF Len(references) > 0
    THEN [is_none |-> FALSE, kv |-> ReferencesFrom(references, 1, stat.kv), info |-> stat.info]
    ELSE stat

(* ------------------------------- inputs -------------------------------- *)

H1 == <<"h", "1">>
H2 == <<"h", "2">>
Nope == <<"n", "o", "p", "e">>

\* the constructor's default title
DefaultTitle == <<"S", "T", "A", "T", "I", "S", "T", "I", "C", "S">>

\* titles given to set_title; <<>> is None or ""
Titles == { <<>>, <<"T">> }

\* the widths the terminal is found to have: none attached (the default width
\* is taken), and one that cuts the default title, the long info line and a
\* table whose columns have grown
TermWidths == { NoTerminal, 13 }

\* info strings: none, and one longer than the narrow terminal
Infos == { <<>>, Rep("x", 15) }

\* the items of a dict, in its order
Items(keys, values) == [i \in 1..Len(keys) |-> [k |-> keys[i], v |-> values[i]]]

\* rows given to add, update and resize_table_by_stat: complete rows, a
\* partial row, a row with one key too many, a row with an unknown key after
\* a valid one
Rows == { Items(<<H1, H2>>, <<1, 2>>),
          Items(<<H1, H2>>, <<300, 4>>),
          Items(<<H2>>, <<9>>),
          Items(<<H1, H2, Nope>>, <<1, 2, 5>>),
          Items(<<H1, Nope>>, <<4000, 5>>) }

\* stat=None, the default of add and update
NoArg == [is_none |-> TRUE, kv |-> <<>>, info |-> <<>>]

\* the stat argument: None or a dict with an optional "info"
StatArgs == { NoArg }
            \cup { [is_none |-> FALSE, kv |-> r, info |-> i] : r \in Rows, i \in Infos }

\* mappings given to rename_headers: a longer name, a shorter name, a valid
\* key followed by an unknown one
Renames == { Items(<<H1>>, << <<"l", "o", "n", "g", "e", "r">> >>),
             Items(<<H2>>, << <<"b">> >>),
             Items(<<H1, Nope>>, << <<"c", "o", "l", "1">>, <<"X">> >>) }

\* the fields of the external object, as they are at construction
Fields == [a |-> 7, b |-> 88]

(* ----------------------------- construction ---------------------------- *)

\* the second collector after construction
Twin == [title |-> DefaultTitle, headers |-> _set_headers(<<H1, H2>>),
         stats |-> <<>>, last_stat |-> EmptyStat,
         table |-> [StatsCollectorTable EXCEPT !.should_update_title = TRUE],
         console |-> <<>>, file |-> <<>>, result |-> "None"]


\* the headers and history as a call with argument arg finds them
Before(arg) == [arg |-> arg, headers |-> headers, stats |-> stats, last_stat |-> last_stat,
                target |-> target, references |-> references]

\* the observations of the print pipeline before its first run
NoRun == [ran |-> FALSE, n |-> 0, limit |-> 0, reset |-> FALSE,
          before |-> StatsCollectorTable, atClear |-> StatsCollectorTable,
          afterClear |-> StatsCollectorTable,
          asked |-> 0, erased |-> <<>>, printed |-> <<>>, prevPrinted |-> <<>>,
          resetBetween |-> FALSE, resetAfter |-> FALSE, widestBefore |-> 0, widest |-> 0,
          steady |-> TRUE]

\* StatsCollector(["h1", "h2"], **kwargs)
Init ==
    /\ conf \in Configs
    /\ headers = _set_headers(<<H1, H2>>)
    /\ title = DefaultTitle
    /\ table = [StatsCollectorTable EXCEPT !.should_update_title = TRUE]
    /\ stats = <<>>
    /\ last_stat = EmptyStat
    /\ console = <<>>
    /\ file = <<>>
    /\ references = <<>>
    /\ target = Fields
    /\ term = NoTerminal
    /\ calls = 0
    /\ ret = [op |-> "init", result |-> "None", reason |-> ""]
    /\ pre = Before(NoArg)
    /\ run = NoRun
    /\ twin = Twin

\* the configurations of a collector that writes the file: rewritten at
\* every add (the default mode), or appended to only
FileConfigs ==
    { [StatsCollectorConfig EXCEPT !.can_write_file = TRUE],
      [StatsCollectorConfig EXCEPT !.can_write_file = TRUE, !.file_mode = "a"] }

\* StatsCollector(["h1", "h2"], can_write_file=True, **kwargs), no file there
InitFile ==
    /\ conf \in FileConfigs
    /\ headers = _set_headers(<<H1, H2>>)
    /\ title = DefaultTitle
    /\ table = [StatsCollectorTable EXCEPT !.should_update_title = TRUE]
    /\ stats = <<>>
    /\ last_stat = EmptyStat
    /\ console = <<>>
    /\ file = <<>>
    /\ references = <<>>
    /\ target = Fields
    /\ term = NoTerminal
    /\ calls = 0
    /\ ret = [op |-> "init", result |-> "None", reason |-> ""]
    /\ pre = Before(NoArg)
    /\ run = NoRun
    /\ twin = Twin

(* ------------------------------ operations ----------------------------- *)

\* what a call that does not run the print pipeline leaves of its
\* observations; was_reset: the call has reset the table
NotRun(was_reset) ==
    [run EXCEPT !.ran = FALSE, !.resetAfter = @ \/ was_reset,
                !.widest = IF was_reset THEN 0 ELSE @]

RECURSIVE Widest(_, _, _)
\* the length of the longest of the lines from i on, or width if that is more
Widest(lines, i, width) ==
    IF i > Len(lines) THEN width
    ELSE Widest(lines, i + 1, Max(width, Len(lines[i].text)))

\* the lines of a block among lines
Block(lines, blocks) == SelectSeq(lines, LAMBDA l : l.block \in blocks)

\* _print_table from w for the headers hs and the row stat: the render state
\* and console it leaves, and what it was seen to do (the lines it erased,
\* the lines it printed, the render state before and after the erase pass,
\* whether every run so far has found the terminal equally wide)
_print_table(w, hs, stat, line_limit) ==
    LET w1 == Reconcile(w, line_limit)
        w2 == _clear_console(w1)
        w5 == _print_stat(_print_headers(_print_title(w2), hs), hs, stat)
        reset == _should_reset_table(w.table, line_limit)
        printed == SubSeq(w5.console, Len(w2.console) + 1, Len(w5.console))
    IN IF conf.can_print_stats
       THEN [w |-> w5,
             obs |-> [ran |-> TRUE, n |-> run.n + 1, limit |-> line_limit, reset |-> reset,
                      before |-> w.table, atClear |-> w1.table, afterClear |-> w2.table,
                      asked |-> count_del_lines(w1.table),
                      erased |-> SubSeq(w1.console, Len(w2.console) + 1, Len(w1.console)),
                      printed |-> printed,
                      prevPrinted |-> run.printed,
                      resetBetween |-> run.resetAfter \/ reset,
                      resetAfter |-> FALSE,
                      widestBefore |-> run.widest,
                      widest |-> Widest(Block(printed, {"stat", "info"}), 1,
                                        IF reset THEN 0 ELSE run.widest),
                      steady |-> run.steady /\ (run.n = 0 \/ run.limit = line_limit)]]
       ELSE [w |-> w, obs |-> NotRun(FALSE)]

\* the tail of add and update: store the row, run the print pipeline
StoreAndPrint(op, w, hs, stat, history, t) ==
    LET p == _print_table(w, hs, stat, get_terminal_columns(t))
    IN /\ headers' = hs
       /\ last_stat' = stat
       /\ stats' = history
       /\ table' = p.w.table
       /\ console' = p.w.console
       /\ file' = p.w.file
       /\ term' = IF conf.can_print_stats THEN t ELSE term
       /\ run' = p.obs
       /\ ret' = [op |-> op, result |-> "row", reason |-> ""]

\* a call that ends in _reset_table(reason) and returns False
Fail(op, hs, w, reason) ==
    /\ headers' = hs
    /\ table' = w.table
    /\ console' = w.console
    /\ file' = w.file
    /\ run' = NotRun(TRUE)
    /\ ret' = [op |-> op, result |-> "False", reason |-> reason]
    /\ UNCHANGED <<stats, last_stat, term>>

\* stat.pop on None
Raise(op, w) ==
    /\ ret' = [op |-> op, result |-> "AttributeError", reason |-> ""]
    /\ run' = NotRun(FALSE)
    /\ file' = w.file
    /\ UNCHANGED <<headers, table, console, stats, last_stat, term>>

set_title(t) ==
    /\ calls < MaxCalls
    /\ calls' = calls + 1
    /\ pre' = Before(NoArg)
    /\ title' = t
    /\ table' = [table EXCEPT !.should_update_title = TRUE]
    /\ ret' = [op |-> "set_title", result |-> "title", reason |-> ""]
    /\ run' = NotRun(FALSE)
    /\ UNCHANGED <<conf, headers, stats, last_stat, console, file, references, target, term>>

\* rename_headers that renames in self._headers, without the deep copy
rename_headers_in_place(mapping) ==
    LET r == RenameFrom(mapping, 1, headers)
        w == [table |-> table, console |-> console, file |-> file]
    IN /\ calls < MaxCalls
       /\ calls' = calls + 1
       /\ pre' = Before([is_none |-> FALSE, kv |-> mapping, info |-> <<>>])
       /\ IF r.ok
          THEN /\ headers' = r.headers
               /\ table' = [table EXCEPT !.should_update_headers = TRUE]
               /\ ret' = [op |-> "rename_headers", result |-> "headers", reason |-> ""]
               /\ run' = NotRun(FALSE)
               /\ UNCHANGED <<stats, last_stat, console, file, term>>
          ELSE Fail("rename_headers", r.headers, _reset_table(w, "Wrong header key", TRUE),
                    "Wrong header key")
       /\ UNCHANGED <<conf, title, references, target>>

rename_headers(mapping) ==
    LET r == RenameFrom(mapping, 1, headers)
        w == [table |-> table, console |-> console, file |-> file]
    IN /\ calls < MaxCalls
       /\ calls' = calls + 1
       /\ pre' = Before([is_none |-> FALSE, kv |-> mapping, info |-> <<>>])
       /\ IF r.ok
          THEN /\ headers' = r.headers
               /\ table' = [table EXCEPT !.should_update_headers = TRUE]
               /\ ret' = [op |-> "rename_headers", result |-> "headers", reason |-> ""]
               /\ run' = NotRun(FALSE)
               /\ UNCHANGED <<stats, last_stat, console, file, term>>
          ELSE Fail("rename_headers", headers, _reset_table(w, "Wrong header key", TRUE),
                    "Wrong header key")
       /\ UNCHANGED <<conf, title, references, target>>

\* resize_table_by_stat that lets _resize flag the headers as add does
resize_table_by_stat_flagging(kv) ==
    LET r == _resize(kv, headers, [table |-> table, console |-> console, file |-> file], TRUE)
    IN /\ calls < MaxCalls
       /\ calls' = calls + 1
       /\ pre' = Before([is_none |-> FALSE, kv |-> kv, info |-> <<>>])
       /\ headers' = r.headers
       /\ table' = r.w.table
       /\ console' = r.w.console
       /\ file' = r.w.file
       /\ ret' = [op |-> "resize_table_by_stat", result |-> "None",
                  reason |-> IF r.ok THEN "" ELSE "Wrong stat key"]
       /\ run' = NotRun(~r.ok)
       /\ UNCHANGED <<conf, title, stats, last_stat, references, target, term>>

resize_table_by_stat(kv) ==
    LET r == _resize(kv, headers, [table |-> table, console |-> console, file |-> file], FALSE)
    IN /\ calls < MaxCalls
       /\ calls' = calls + 1
       /\ pre' = Before([is_none |-> FALSE, kv |-> kv, info |-> <<>>])
       /\ headers' = r.headers
       /\ table' = r.w.table
       /\ console' = r.w.console
       /\ file' = r.w.file
       /\ ret' = [op |-> "resize_table_by_stat", result |-> "None",
                  reason |-> IF r.ok THEN "" ELSE "Wrong stat key"]
       /\ run' = NotRun(~r.ok)
       /\ UNCHANGED <<conf, title, stats, last_stat, references, target, term>>

\* add that stores the row before _resize has validated its keys
add_stores_first(stat, t) ==
    LET w == [table |-> table, console |-> console, file |-> _rewrite_file(file)]
        full == _write_references_to_stat(stat)
        r == _resize(full.kv, headers, w, TRUE)
        temp_stat == [cells |-> r.temp_stat, has_info |-> TRUE,
                      info |-> IF full.info # <<>> THEN <<full.info>> ELSE <<>>]
    IN /\ calls < MaxCalls
       /\ calls' = calls + 1
       /\ pre' = Before(stat)
       /\ IF full.is_none THEN Raise("add", w)
          ELSE IF Len(full.kv) # Len(headers)
          THEN Fail("add", headers, _reset_table(w, "Incorrect stat quantity", TRUE),
                    "Incorrect stat quantity")
          ELSE IF ~r.ok
          THEN /\ headers' = r.headers
               /\ table' = r.w.table
               /\ console' = r.w.console
               /\ file' = r.w.file
               /\ run' = NotRun(TRUE)
               /\ ret' = [op |-> "add", result |-> "False", reason |-> "Wrong stat key"]
               /\ last_stat' = temp_stat
               /\ stats' = Append(stats, temp_stat)
               /\ UNCHANGED term
          ELSE StoreAndPrint("add", r.w, r.headers, temp_stat, Append(stats, temp_stat), t)
       /\ UNCHANGED <<conf, title, references, target>>

add(stat, t) ==
    LET w == [table |-> table, console |-> console, file |-> _rewrite_file(file)]
        full == _write_references_to_stat(stat)
        r == _resize(full.kv, headers, w, TRUE)
        temp_stat == [cells |-> r.temp_stat, has_info |-> TRUE,
                      info |-> IF full.info # <<>> THEN <<full.info>> ELSE <<>>]
    IN /\ calls < MaxCalls
       /\ calls' = calls + 1
       /\ pre' = Before(stat)
       /\ IF full.is_none THEN Raise("add", w)
          ELSE IF Len(full.kv) # Len(headers)
          THEN Fail("add", headers, _reset_table(w, "Incorrect stat quantity", TRUE),
                    "Incorrect stat quantity")
          ELSE IF ~r.ok THEN Fail("add", r.headers, r.w, "Wrong stat key")
          ELSE StoreAndPrint("add", r.w, r.headers, temp_stat, Append(stats, temp_stat), t)
       /\ UNCHANGED <<conf, title, references, target>>

update(stat, t) ==
    LET w == [table |-> table, console |-> console, file |-> file]
        full == _write_references_to_stat(stat)
        r == _resize(full.kv, headers, w, TRUE)
        temp_stat == [cells |-> DictUpdate(last_stat.cells, r.temp_stat),
                      has_info |-> last_stat.has_info,
                      info |-> IF full.info # <<>> THEN Append(last_stat.info, full.info)
                               ELSE last_stat.info]
    IN /\ calls < MaxCalls
       /\ calls' = calls + 1
       /\ pre' = Before(stat)
       /\ IF DictLen(last_stat) = 0
          THEN Fail("update", headers, _reset_table(w, "No stat available", TRUE),
                    "No stat available")
          ELSE IF full.is_none THEN Raise("update", w)
          ELSE IF Len(full.kv) > Len(headers)
          THEN Fail("update", headers, _reset_table(w, "Incorrect stat quantity", TRUE),
                    "Incorrect stat quantity")
          ELSE IF ~r.ok THEN Fail("update", r.headers, r.w, "Wrong stat key")
          ELSE StoreAndPrint("update", r.w, r.headers, temp_stat,
                             [stats EXCEPT ![Len(stats)] = temp_stat], t)
       /\ UNCHANGED <<conf, title, references, target>>

(* -------------------- the same calls on a second collector ------------- *)

\* a call on the collector c that ends in _reset_table and returns False
FailOn(c, hs, w) ==
    [c EXCEPT !.headers = hs, !.table = w.table, !.console = w.console, !.file = w.file,
              !.result = "False"]

\* set_title on the collector c
set_title_on(c, t) ==
    [c EXCEPT !.title = t, !.table.should_update_title = TRUE, !.result = "title"]

\* rename_headers on the collector c
rename_headers_on(c, mapping) ==
    LET r == RenameFrom(mapping, 1, c.headers)
        w == [table |-> c.table, console |-> c.console, file |-> c.file]
    IN IF r.ok
       THEN [c EXCEPT !.headers = r.headers, !.table.should_update_headers = TRUE,
                      !.result = "headers"]
       ELSE FailOn(c, c.headers, _reset_table(w, "Wrong header key", TRUE))

\* the tail of add and update on the collector c, on a terminal t
StoreAndPrintOn(c, w, hs, stat, history, t) ==
    LET p == _print_table(w, hs, stat, get_terminal_columns(t))
    IN [c EXCEPT !.headers = hs, !.last_stat = stat, !.stats = history,
                 !.table = p.w.table, !.console = p.w.console, !.file = p.w.file,
                 !.result = "row"]

\* add on the collector c, which writes no file, on a terminal t
add_on(c, stat, t) ==
    LET w == [table |-> c.table, console |-> c.console, file |-> c.file]
        full == _write_references_to_stat(stat)
        r == _resize(full.kv, c.headers, w, TRUE)
        temp_stat == [cells |-> r.temp_stat, has_info |-> TRUE,
                      info |-> IF full.info # <<>> THEN <<full.info>> ELSE <<>>]
    IN IF full.is_none THEN [c EXCEPT !.result = "AttributeError"]
       ELSE IF Len(full.kv) # Len(c.headers)
       THEN FailOn(c, c.headers, _reset_table(w, "Incorrect stat quantity", TRUE))
       ELSE IF ~r.ok THEN FailOn(c, r.headers, r.w)
       ELSE StoreAndPrintOn(c, r.w, r.headers, temp_stat, Append(c.stats, temp_stat), t)

\* update on the collector c, on a terminal t
update_on(c, stat, t) ==
    LET w == [table |-> c.table, console |-> c.console, file |-> c.file]
        full == _write_references_to_stat(stat)
        r == _resize(full.kv, c.headers, w, TRUE)
        temp_stat == [cells |-> DictUpdate(c.last_stat.cells, r.temp_stat),
                      has_info |-> c.last_stat.has_info,
                      info |-> IF full.info # <<>> THEN Append(c.last_stat.info, full.info)
                               ELSE c.last_stat.info]
    IN IF DictLen(c.last_stat) = 0
       THEN FailOn(c, c.headers, _reset_table(w, "No stat available", TRUE))
       ELSE IF full.is_none THEN [c EXCEPT !.result = "AttributeError"]
       ELSE IF Len(full.kv) > Len(c.headers)
       THEN FailOn(c, c.headers, _reset_table(w, "Incorrect stat quantity", TRUE))
       ELSE IF ~r.ok THEN FailOn(c, r.headers, r.w)
       ELSE StoreAndPrintOn(c, r.w, r.headers, temp_stat,
                            [c.stats EXCEPT ![Len(c.stats)] = temp_stat], t)

\* rows given to both collectors: complete rows, a partial row, a row with
\* an unknown key after a valid one
PairRows == { Items(<<H1, H2>>, <<1, 2>>),
              Items(<<H1, H2>>, <<300, 4>>),
              Items(<<H2>>, <<9>>),
              Items(<<H1, Nope>>, <<4000, 5>>) }

\* the stat argument given to both: each row without "info", and one row
\* with the long info string too
PairArgs == { [is_none |-> FALSE, kv |-> r, info |-> <<>>] : r \in PairRows }
            \cup { [is_none |-> FALSE, kv |-> Items(<<H1, H2>>, <<1, 2>>), info |-> Rep("x", 15)] }

\* two collectors of one configuration get the same calls; each add and
\* update finds the terminal of the first t columns wide and the terminal of
\* the second u columns wide
NextPair ==
    \/ \E t \in Titles : set_title(t) /\ twin' = set_title_on(twin, t)
    \/ \E m \in Renames : rename_headers(m) /\ twin' = rename_headers_on(twin, m)
    \/ \E s \in PairArgs, t, u \in TermWidths : add(s, t) /\ twin' = add_on(twin, s, u)
    \/ \E s \in PairArgs, t, u \in TermWidths : update(s, t) /\ twin' = update_on(twin, s, u)

SpecPair == Init /\ [][NextPair]_vars

(* ------------------------- reference bindings -------------------------- *)

\* the position of header's binding in _references, 0 when there is none
RefPos(refs, header) ==
    IF \E i \in 1..Len(refs) : refs[i].header = header
    THEN CHOOSE i \in 1..Len(refs) : refs[i].header = header
    ELSE 0

\* create_reference(header, obj, prop, force) for the external object obj
create_reference(header, prop, force) ==
    LET known == HeaderPos(headers, header) # 0
        pos == RefPos(references, header)
    IN /\ calls < MaxCalls
       /\ calls' = calls + 1
       /\ pre' = Before(NoArg)
       /\ run' = NotRun(FALSE)
       /\ IF ~known \/ (pos # 0 /\ ~force)
          THEN /\ ret' = [op |-> "create_reference", result |-> "AttributeError",
                          reason |-> IF known THEN "Header key is exists"
                                     ELSE "Wrong header key"]
               /\ UNCHANGED references
          ELSE /\ ret' = [op |-> "create_reference", result |-> "None", reason |-> ""]
               /\ references' = IF pos # 0
                                THEN [references EXCEPT ![pos].prop = prop]
                                ELSE Append(references, [header |-> header, prop |-> prop])
       /\ UNCHANGED <<conf, table, title, headers, stats, last_stat, console, file, target, term>>

\* the owner of the external object assigns to its fields
TargetChange(fields) ==
    /\ fields # target
    /\ target' = fields
    /\ ret' = [op |-> "target", result |-> "None", reason |-> ""]
    /\ pre' = Before(NoArg)
    /\ run' = NotRun(FALSE)
    /\ UNCHANGED <<conf, table, title, headers, stats, last_stat, console, file, references,
                   term, calls>>

\* the values the fields of the external object take
FieldValues == { Fields, [Fields EXCEPT !.a = 555] }

\* rows given to add and update of a collector with bindings: no argument,
\* an empty row, a row without h1, a row with None for h1, a complete row
RefArgs == { NoArg,
             [is_none |-> FALSE, kv |-> <<>>, info |-> <<>>],
             [is_none |-> FALSE, kv |-> Items(<<H2>>, <<2>>), info |-> <<>>],
             [is_none |-> FALSE, kv |-> Items(<<H1, H2>>, <<None, 2>>), info |-> <<>>],
             [is_none |-> FALSE, kv |-> Items(<<H1, H2>>, <<1, 2>>), info |-> <<>>] }

\* a collector whose headers get bound to the fields of an external object
NextRef ==
    \/ \E h \in {H1, H2, Nope}, prop \in DOMAIN Fields, force \in BOOLEAN :
           create_reference(h, prop, force) /\ UNCHANGED twin
    \/ \E fields \in FieldValues : TargetChange(fields) /\ UNCHANGED twin
    \/ \E s \in RefArgs : add(s, NoTerminal) /\ UNCHANGED twin
    \/ \E s \in RefArgs : update(s, NoTerminal) /\ UNCHANGED twin

SpecRef == Init /\ [][NextRef]_vars

(* ------------------------- the calls on one collector ------------------ *)

Next ==
    \/ \E t \in Titles : set_title(t) /\ UNCHANGED twin
    \/ \E m \in Renames : rename_headers(m) /\ UNCHANGED twin
    \/ \E r \in Rows : resize_table_by_stat(r) /\ UNCHANGED twin
    \/ \E s \in StatArgs, t \in TermWidths : add(s, t) /\ UNCHANGED twin
    \/ \E s \in StatArgs, t \in TermWidths : update(s, t) /\ UNCHANGED twin

Spec == Init /\ [][Next]_vars

\* the same calls on a collector that writes the file
SpecFile == InitFile /\ [][Next]_vars

(* ------------------------------- claims -------------------------------- *)

\* the blocks an erase pass has erased: those whose counter it has zeroed
ErasedTitle == run.atClear.title_len > 0 /\ run.afterClear.title_len = 0
ErasedHeaders == run.atClear.headers_len > 0 /\ run.afterClear.headers_len = 0
ErasedStat == run.atClear.stats_len > 0 /\ run.afterClear.stats_len = 0
ErasedInfo == run.atClear.info_len > 0 /\ run.afterClear.info_len = 0

\* the lines of the stat and info blocks as _print_stat has stored them
StatBlocks(stats_str) ==
    Lines("stat", SubSeq(stats_str, 1, 2)) \o Lines("info", SubSeq(stats_str, 3, Len(stats_str)))

\* the lines the erased blocks were last printed as, top-most first
LastPrinted ==
    (IF ErasedTitle THEN Lines("title", run.atClear.title_str) ELSE <<>>)
    \o (IF ErasedHeaders THEN Lines("headers", run.atClear.headers_str) ELSE <<>>)
    \o (IF ErasedStat THEN StatBlocks(run.atClear.stats_str) ELSE <<>>)

\* C1: in short format the printed-line counters are never negative, and an
\* erase pass removes from the bottom of the console exactly the lines that
\* the latest print of each block it erases has emitted: 2 for the title
\* block, 3 for the header block, 2 for the stat block, n + 1 for an info
\* block of n > 0 lines; the count it asks for is the count that is there.
C1_EraseExact ==
    conf.is_short_format =>
        /\ table.title_len >= 0 /\ table.headers_len >= 0
        /\ table.stats_len >= 0 /\ table.info_len >= 0
        /\ run.ran =>
            /\ run.asked = Len(run.erased)
            /\ run.erased = LastPrinted
            /\ Len(Block(run.erased, {"title"})) = IF ErasedTitle THEN 2 ELSE 0
            /\ Len(Block(run.erased, {"headers"})) = IF ErasedHeaders THEN 3 ELSE 0
            /\ Len(Block(run.erased, {"stat"})) = IF ErasedStat THEN 2 ELSE 0
            /\ Len(Block(run.erased, {"info"})) =
                   IF ErasedInfo THEN run.atClear.info_len + 1 ELSE 0

\* C1 witness: an erase pass that erases all four blocks
C1_Witness ==
    /\ conf.is_short_format /\ run.ran
    /\ ErasedTitle /\ ErasedHeaders /\ ErasedStat /\ ErasedInfo
    /\ Len(run.erased) = 7 + run.atClear.info_len + 1

\* the preconditions of C2: short format, a second or later run of the print
\* pipeline, no table reset since the run before it
C2_Consecutive == conf.is_short_format /\ run.ran /\ run.n >= 2 /\ ~run.resetBetween

\* C2 as stated: without a reset between them, the later of two consecutive
\* runs erases as many lines as the earlier one printed.
C2_ErasedEqualsPrinted == C2_Consecutive => Len(run.erased) = Len(run.prevPrinted)

\* C2 amended: without a reset between them, the later run erases exactly the
\* stat and info lines the earlier run printed, plus the 3 lines of the header
\* block when headers or title are flagged dirty, plus the 2 lines of the
\* title block when the title is flagged dirty and on the console.
C2_ErasesStatBlock ==
    C2_Consecutive =>
        /\ Block(run.erased, {"stat", "info"}) = Block(run.prevPrinted, {"stat", "info"})
        /\ Len(run.erased) =
               Len(Block(run.prevPrinted, {"stat", "info"}))
               + (IF run.atClear.should_update_headers \/ run.atClear.should_update_title
                  THEN 3 ELSE 0)
               + (IF run.atClear.should_update_title /\ run.atClear.title_len > 0
                  THEN 2 ELSE 0)

\* C2 witness: a later run that erases the earlier run's stat and info blocks
\* and leaves the title and header blocks the earlier run printed
C2_Witness ==
    /\ C2_Consecutive
    /\ Len(run.prevPrinted) >= 9
    /\ Len(run.erased) = 4

Keys(kv) == {kv[i].k : i \in 1..Len(kv)}

HeaderKeys(hs) == {hs[i].key : i \in 1..Len(hs)}

\* C3: no call, successful or failing, lowers a column's minlen (or changes
\* the columns' keys and order).
C3_MinlenMonotone ==
    /\ Len(headers) = Len(pre.headers)
    /\ \A i \in 1..Len(headers) :
           /\ headers[i].key = pre.headers[i].key
           /\ headers[i].minlen >= pre.headers[i].minlen

\* C3 witness: a failing call and a renaming to a shorter name, each after a
\* column has grown
C3_Witness ==
    \/ /\ ret.result = "False"
       /\ \E i \in 1..Len(headers) : headers[i].minlen > pre.headers[i].minlen
    \/ /\ ret.op = "rename_headers" /\ ret.result = "headers"
       /\ \E i \in 1..Len(headers) : headers[i].minlen > Len(headers[i].name)

ValueOf(kv, key) == kv[CHOOSE i \in 1..Len(kv) : kv[i].k = key].v

\* C5: a successful add appends one row and changes no earlier one; a
\* successful update changes only the last row, where each supplied key gets
\* the text of its value, every other key keeps its text, and a supplied
\* info string is appended to the row's info lines; no other call changes
\* the history.
C5_HistoryFrame ==
    /\ (ret.op = "add" /\ ret.result = "row") =>
           /\ Len(stats) = Len(pre.stats) + 1
           /\ SubSeq(stats, 1, Len(pre.stats)) = pre.stats
           /\ stats[Len(stats)] = last_stat
    /\ (ret.op = "update" /\ ret.result = "row") =>
           /\ Len(stats) = Len(pre.stats)
           /\ \A i \in 1..(Len(stats) - 1) : stats[i] = pre.stats[i]
           /\ stats[Len(stats)] = last_stat
           /\ \A j \in 1..Len(pre.headers) :
                  last_stat.cells[pre.headers[j].index] =
                      IF pre.headers[j].key \in Keys(pre.arg.kv)
                      THEN str(ValueOf(pre.arg.kv, pre.headers[j].key))
                      ELSE pre.last_stat.cells[pre.headers[j].index]
           /\ last_stat.info = IF pre.arg.info # <<>>
                               THEN Append(pre.last_stat.info, pre.arg.info)
                               ELSE pre.last_stat.info
    /\ ret.op \notin {"add", "update"} => stats = pre.stats

\* C5 witness: an update of one key of the second of two rows
C5_Witness ==
    /\ ret.op = "update" /\ ret.result = "row"
    /\ Len(stats) = 2 /\ Len(pre.arg.kv) = 1
    /\ last_stat.cells # pre.last_stat.cells

\* the printed-line counters and remembered widths of a render state are cleared
Cleared(tb) ==
    /\ tb.title_len = 0 /\ tb.headers_len = 0 /\ tb.stats_len = 0 /\ tb.info_len = 0
    /\ tb.title_width = 0 /\ tb.table_width = 0 /\ tb.max_stat_width = 0

\* C6: a table reset, by a failing call or by the print pipeline, clears the
\* printed-line counters and the remembered widths; the first run of the
\* print pipeline after it erases nothing and prints the title block (when
\* title printing is enabled and the title is not empty), the header block
\* and the stat block, in this order.
C6_ResetThenFullPrint ==
    /\ (ret.result = "False" \/ ret.reason # "") => Cleared(table) /\ table.line_limit = 0
    /\ (run.ran /\ run.reset) => Cleared(run.atClear)
    /\ (run.ran /\ run.resetBetween) =>
           /\ run.erased = <<>> /\ run.asked = 0
           /\ run.printed =
                  (IF conf.can_print_title /\ title # <<>>
                   THEN Lines("title", table.title_str) ELSE <<>>)
                  \o Lines("headers", table.headers_str)
                  \o StatBlocks(table.stats_str)
           /\ Len(Block(run.printed, {"title"})) =
                  IF conf.can_print_title /\ title # <<>> THEN 2 ELSE 0
           /\ Len(Block(run.printed, {"headers"})) = 3
           /\ Len(Block(run.printed, {"stat"})) = 2

\* C6 witness: a full print after a failing call has reset a table that was
\* on the console
C6_Witness ==
    /\ run.ran /\ run.resetBetween /\ ~run.reset /\ run.n >= 2
    /\ Len(Block(run.printed, {"title"})) = 2

\* C7: rename_headers with a mapping that has a key that is no header returns
\* False and leaves every header (key, order, name, minlen) as it was, also
\* when valid keys come before the unknown one.
C7_RenameAllOrNothing ==
    /\ (ret.op = "rename_headers" /\ ~(Keys(pre.arg.kv) \subseteq HeaderKeys(pre.headers)))
           => ret.result = "False"
    /\ (ret.op = "rename_headers" /\ ret.result = "False") => headers = pre.headers

\* C7 witness: a failing rename whose mapping has a valid key before the
\* unknown one
C7_Witness ==
    /\ ret.op = "rename_headers" /\ ret.result = "False"
    /\ pre.arg.kv[1].k \in HeaderKeys(pre.headers)
    /\ Len(pre.arg.kv) = 2

\* C8 as stated: the print pipeline resets the table exactly when the policy
\* of the reset mode holds for the new limit: another limit than the stored
\* one, a smaller limit than the stored one, or (by default) a limit smaller
\* than the widest line of a stat block printed since the table was last reset.
C8_ResetIffPolicy ==
    run.ran =>
        (run.reset <=>
            IF conf.reset_table_mode = TERMINAL_CHANGE
            THEN run.limit # run.before.line_limit
            ELSE IF conf.reset_table_mode = TERMINAL_DECREASE
            THEN run.limit < run.before.line_limit
            ELSE run.limit < run.widestBefore)

\* the exported text
Export == get_table(conf, title, headers, stats)

IsRule(l) == Len(l) > 0 /\ \A i \in 1..Len(l) : l[i] = "-"

IsRow(l) == Len(l) >= 2 /\ l[1] = "|" /\ l[Len(l)] = "|"

\* the lines of the title block of the exported text
TitleLines == IF conf.can_print_title /\ title # <<>> THEN 2 ELSE 0

RECURSIVE SumRows(_, _, _)
\* the sum of RowLen(n, ...) over the rows before row i, n being a row's
\* number of info lines and between the dash rules between its value line
\* and its info lines
SumRows(rows, i, between) ==
    IF i <= 1 THEN 0
    ELSE SumRows(rows, i - 1, between)
         + (IF Len(rows[i - 1].info) > 0 THEN Len(rows[i - 1].info) + 2 + between ELSE 2)

\* C9 as stated: title block (when there is one), dash rule, header row, dash
\* rule, then for each row its value line, its n info lines and one dash
\* rule: n + 2 lines, none of them between the value line and the info lines.
C9_RowIsInfoPlusTwo ==
    /\ Len(Export) = TitleLines + 3 + SumRows(stats, Len(stats) + 1, 0)
    /\ \A i \in 1..Len(stats) :
           LET s == TitleLines + 3 + SumRows(stats, i, 0) + 1
               n == Len(stats[i].info)
           IN /\ IsRow(Export[s])
              /\ \A k \in 1..n : Export[s + k] = stats[i].info[k]
              /\ IsRule(Export[s + n + 1])

\* C9 amended: title block (when there is one), dash rule, header row, dash
\* rule, then for each row its value line and a dash rule and, when the row
\* has n > 0 info lines, the info lines and one more dash rule: 2 lines for
\* a row without info lines, n + 3 for one with; a dash rule stands between
\* the value line and the info lines.
C9_ExportStructure ==
    /\ Len(Export) = TitleLines + 3 + SumRows(stats, Len(stats) + 1, 1)
    /\ TitleLines = 2 =>
           /\ IsRule(Export[1]) /\ Len(Export[1]) = Len(Export[2])
           /\ Export[2] = <<"|", " ">> \o title \o <<" ", "|">>
    /\ IsRule(Export[TitleLines + 1])
    /\ IsRow(Export[TitleLines + 2])
    /\ IsRule(Export[TitleLines + 3])
    /\ \A i \in 1..Len(stats) :
           LET s == TitleLines + 3 + SumRows(stats, i, 1) + 1
               n == Len(stats[i].info)
           IN /\ IsRow(Export[s])
              /\ IsRule(Export[s + 1])
              /\ n > 0 => /\ \A k \in 1..n : Export[s + 1 + k] = stats[i].info[k]
                          /\ IsRule(Export[s + n + 2])

\* C9 witness: a title block, a row with an info line and a row after it
C9_Witness ==
    /\ TitleLines = 2
    /\ Len(stats) = 2
    /\ Len(stats[1].info) = 1
    /\ Len(stats[2].info) = 0
    /\ Len(Export) = 11

\* C10's case: headers h1, h2, then add({h1: 1, h2: 2}), add({h1: 300, h2: 4})
C10_Case ==
    /\ calls = 2
    /\ Len(stats) = 2
    /\ stats[1] = [cells |-> (0 :> <<"1">> @@ 1 :> <<"2">>), has_info |-> TRUE, info |-> <<>>]
    /\ stats[2] = [cells |-> (0 :> <<"3", "0", "0">> @@ 1 :> <<"4">>),
                   has_info |-> TRUE, info |-> <<>>]

\* C10 as stated: the exported text has a header row with both columns
\* padded to width 3.
C10_BothColumnsWidth3 ==
    C10_Case =>
        \E i \in 1..Len(Export) :
            Export[i] = <<"|", " ", "h", "1", " ", " ", "|", " ", "h", "2", " ", " ", "|">>

\* C10 amended: the exported text has a header row with h1 padded to width 3
\* (from "300") and h2 left at width 2, followed by the two value rows
\* padded to the same widths, a dash rule after each.
C10_ColumnWidths3And2 ==
    C10_Case =>
        \E i \in 1..(Len(Export) - 5) :
            /\ Export[i] = <<"|", " ", "h", "1", " ", " ", "|", " ", "h", "2", " ", "|">>
            /\ Export[i + 1] = Dashes(12)
            /\ Export[i + 2] = <<"|", " ", "1", " ", " ", " ", "|", " ", "2", " ", " ", "|">>
            /\ Export[i + 3] = Dashes(12)
            /\ Export[i + 4] = <<"|", " ", "3", "0", "0", " ", "|", " ", "4", " ", " ", "|">>
            /\ Export[i + 5] = Dashes(12)

\* C10 witness: the two adds have been made
C10_Witness == C10_Case /\ Len(Export) >= 7

\* the text the second collector exports
ExportTwin == get_table(conf, twin.title, twin.headers, twin.stats)

\* C11: two collectors of the same configuration that are given the same
\* calls (add, update, rename_headers, set_title) and find whatever terminal
\* widths at their prints have, after every call, the same title, headers and
\* history, return the same from the call, and export the same text.
C11_ExportIndependent ==
    /\ twin.title = title /\ twin.headers = headers /\ twin.stats = stats
    /\ twin.last_stat = last_stat
    /\ twin.result = ret.result
    /\ ExportTwin = Export

\* C11 witness: two rows stored, the latest print cut by the terminal and
\* begun with a table reset on one collector and neither on the other
C11_Witness ==
    /\ Len(stats) = 2 /\ run.ran /\ run.reset
    /\ table.line_limit # twin.table.line_limit
    /\ Len(console) # Len(twin.console)
    /\ table.stats_str # twin.table.stats_str

\* the text stored in the current row for the header key
CellOf(key) == last_stat.cells[pre.headers[HeaderPos(pre.headers, key)].index]

\* a successful add or update has filled the bound headers the row has no
\* value for with the fields of the external object as they were at the call
C12_FillsAbsent ==
    (ret.op \in {"add", "update"} /\ ret.result = "row") =>
        \A i \in 1..Len(pre.references) :
            pre.references[i].header \notin Keys(pre.arg.kv) =>
                CellOf(pre.references[i].header) = str(pre.target[pre.references[i].prop])

\* C12 as stated: each bound header absent from the row given to add or
\* update gets the value the bound field has at the call; a value given for
\* a bound header stays as given; rows already stored do not change when the
\* bound field changes.
C12_BindingFillsOnlyAbsent ==
    /\ C12_FillsAbsent
    /\ (ret.op \in {"add", "update"} /\ ret.result = "row") =>
           \A i \in 1..Len(pre.references) :
               pre.references[i].header \in Keys(pre.arg.kv) =>
                   CellOf(pre.references[i].header) =
                       str(ValueOf(pre.arg.kv, pre.references[i].header))
    /\ ret.op = "target" => stats = pre.stats /\ last_stat = pre.last_stat

\* C13 as stated: a run of the print pipeline that does not reset the table
\* flags the title dirty iff the pristine width of the title on the console
\* is more than the new limit, and flags the headers dirty iff the pristine
\* width of the table is more than the new limit, each on its own.
C13_FlagsAgainstNewLimit ==
    (run.ran /\ ~run.reset) =>
        /\ (run.before.title_len > 0 /\ ~run.before.should_update_title) =>
               (run.atClear.should_update_title <=> Len(TitleRow(title)) > run.limit)
        /\ ~run.before.should_update_headers =>
               (run.atClear.should_update_headers <=> run.before.table_width > run.limit)

\* the top line of the header block the latest run has printed
TopRule == Block(run.printed, {"headers"})[1].text

\* C14 as stated: a run that prints the title block stores the pristine width
\* of "| <title> |" as the title width, and prints the top dash rule of the
\* header block max(pristine title width, pristine header-row width) long,
\* cut to the limit: as long as the title line, and as the rule of the
\* exported text, up to the limit.
C14_TopRuleSpansTitle ==
    (run.ran /\ Block(run.printed, {"title"}) # <<>>) =>
        /\ table.title_width = Len(TitleRow(title))
        /\ Len(TopRule) = Min(run.limit, Max(Len(TitleRow(title)), Len(HeaderRow(headers))))
        /\ Len(TopRule) >= Len(Block(run.printed, {"title"})[2].text)
        /\ TopRule = limit_console_line(Export[TitleLines + 1], run.limit)

\* C16 as stated: in short format under the default reset mode, while every
\* print finds the terminal equally wide, the print pipeline never resets the
\* table, and each print erases the stat and info blocks of the one before.
C16_NoResetOnSteadyTerminal ==
    (conf.reset_table_mode = TABLE_DECREASE /\ conf.is_short_format /\ run.ran /\ run.steady) =>
        /\ ~run.reset
        /\ (run.n >= 2 /\ ~run.resetBetween) =>
               Block(run.erased, {"stat", "info"}) = Block(run.prevPrinted, {"stat", "info"})

\* C17 as stated: an add or update that returns False leaves every header
\* (key, order, name, minlen) as it was.
C17_FailedRowKeepsHeaders ==
    (ret.op \in {"add", "update"} /\ ret.result = "False") => headers = pre.headers

\* C15: resize_table_by_stat with a row whose keys are all header keys raises
\* the minlen of each column the row has a value for to the length of the
\* value's text when that is more, and changes nothing else: not the other
\* columns, names or order, not the render state (dirty flags, printed-line
\* counters, remembered widths), not the history, the current row, the
\* title or the file; and it prints nothing.
C15_ResizeFrame ==
    [][(calls' = calls + 1 /\ ret'.op = "resize_table_by_stat"
        /\ Keys(pre'.arg.kv) \subseteq HeaderKeys(headers)) =>
           /\ table' = table /\ console' = console /\ file' = file
           /\ stats' = stats /\ last_stat' = last_stat /\ title' = title
           /\ Len(headers') = Len(headers)
           /\ \A i \in 1..Len(headers) :
                  headers'[i] =
                      [headers[i] EXCEPT !.minlen =
                          IF headers[i].key \in Keys(pre'.arg.kv)
                          THEN Max(@, Len(str(ValueOf(pre'.arg.kv, headers[i].key))))
                          ELSE @]]_vars

\* C15 witness: a resize_table_by_stat that has widened a column of a table
\* whose header block is on the console and not flagged dirty
C15_Witness ==
    /\ ret.op = "resize_table_by_stat" /\ ret.reason = ""
    /\ \E i \in 1..Len(headers) : headers[i].minlen > pre.headers[i].minlen
    /\ table.headers_len > 0 /\ ~table.should_update_headers
    /\ Len(stats) > 0

\* C18: every column's minlen is at least the length of its name and of its
\* text in every row of the history, each of which has a text for every
\* column; so in the exported text the header row and every value row are
\* equally long.
C18_ColumnsFitCells ==
    /\ \A i \in 1..Len(headers) : headers[i].minlen >= Len(headers[i].name)
    /\ \A r \in 1..Len(stats) : \A i \in 1..Len(headers) :
           /\ headers[i].index \in DOMAIN stats[r].cells
           /\ headers[i].minlen >= Len(stats[r].cells[headers[i].index])
    /\ Export[TitleLines + 2] = HeaderRow(headers)
    /\ \A r \in 1..Len(stats) :
           LET line == Export[TitleLines + 3 + SumRows(stats, r, 1) + 1]
           IN line = StatRow(headers, stats[r]) /\ Len(line) = Len(HeaderRow(headers))

\* C18 witness: two rows in a table with a column wider than its name and a
\* column wider than its text in a row
C18_Witness ==
    /\ Len(stats) = 2
    /\ \E i \in 1..Len(headers) : headers[i].minlen > Len(headers[i].name)
    /\ \E i \in 1..Len(headers) :
           headers[i].minlen > Len(stats[1].cells[headers[i].index])

\* the header row of the header block printed last on the console
HeaderRowOnConsole ==
    LET block == Block(console, {"headers"}) IN block[Len(block) - 1].text

\* C19 as stated: in short format, on a terminal that every print has found
\* wider than every line, after every successful add or update the header
\* row on the console is as long as the stat row just printed below it (was
\* rendered with the same column widths), whatever calls of add, update,
\* rename_headers, set_title and resize_table_by_stat came before.
C19_HeaderRowAlignsWithStatRow ==
    (conf.is_short_format /\ run.ran /\ run.steady /\ run.limit = default_terminal_columns) =>
        /\ Len(Block(console, {"headers"})) >= 3
        /\ Len(HeaderRowOnConsole) = Len(Block(run.printed, {"stat"})[1].text)

\* C20 as stated: with can_write_file and the file mode "w", on a terminal
\* that every print has found wider than every line, after every successful
\* add the file holds the exported text and a newline, each block once.
C20_FileIsExport ==
    (conf.can_write_file /\ conf.file_mode = "w" /\ ret.op = "add" /\ ret.result = "row"
     /\ run.steady /\ run.limit = default_terminal_columns) =>
        file = Export

====
